---- MODULE Spec2Model ----
(***************************************************************************)
(* Model of the Mini-Cover layered canvas renderer (assets/script.js, the  *)
(* file kept as src/unnamed/part_001): the LRU image cache, the reactive   *)
(* render state, the four layer canvases, the batch update scheduler, the  *)
(* asynchronous file reads and image decodes, and the compositor.          *)
(*                                                                         *)
(* A canvas is modelled by the sequence of drawing operations issued on it *)
(* since its last clearRect.  Every JavaScript function is an operator     *)
(* from machine record to machine record; an action runs one whole         *)
(* handler (an exported entrypoint, a frame callback, a FileReader onload, *)
(* an Image onload) and commits the record it returns.                     *)
(***************************************************************************)
EXTENDS Integers, Sequences, FiniteSets, TLC

VARIABLES
    state,            \* the reactive RenderState object
    canvas,           \* exported `canvas` (the output element or null)
    ctx,              \* exported `ctx` (the output 2d context or null)
    elementExists,    \* DOM: does #canvasPreview exist
    output,           \* what the output canvas shows: the layers drawn since its last clearRect
    bgCanvas,         \* operations on the background layer since its last clearRect
    bgFilter,         \* bgCtx.filter (set by the image path, never reset)
    textCanvas,       \* operations on the text layer
    watermarkCanvas,  \* operations on the watermark layer
    squareCanvas,     \* operations on the icon layer
    updateQueue,      \* the Set of queued {type, event} objects, in insertion order
    updateScheduled,  \* the scheduler's flag
    rafPending,       \* frame callbacks armed by scheduleUpdate and not yet fired
    imageCache,       \* imageCache.cache: the Map's [key, value] entries in insertion order
    readers,          \* FileReader reads in flight
    images,           \* Image decodes in flight (before: the layer as the redraw found it)
    calls,            \* functions invoked by the handler that ran last, in order
    updates,          \* the local `updates` of the flush that ran last (empty otherwise)
    bgIssued,         \* history: the last two background source updates ("image", "color")
    lastSet,          \* history: per layer, the file of the image update made last
    decodeFailed,     \* history: has an image decode failed
    nCalls,           \* number of entrypoint calls made so far (bounds the model)
    touched,          \* cache keys in order of their last get-hit or set (oldest first)
    lastOp,           \* the cache operation that ran last
    apiPending,       \* API calls suspended at an await (export: toBlob, generate: import)
    response,         \* the response the API call that completed last gave its caller
    lastBlob,         \* history: what the toBlob callback that ran last was given
    geomArgs,         \* the arguments of the geometry computation that ran last
    geomResult,       \* what that computation drew
    enqueued,         \* history (SpecSched): every {type, event} passed to scheduleUpdate
    dispatched,       \* history (SpecSched): every {type, event} a flush handed to its updater
    cleaned           \* history (SpecCleanup): whether cleanup ran, and the RenderState it left

vars == <<state, canvas, ctx, elementExists, output, bgCanvas, bgFilter, textCanvas,
          watermarkCanvas, squareCanvas, updateQueue, updateScheduled, rafPending,
          imageCache, readers, images, calls, updates, bgIssued, lastSet, decodeFailed,
          nCalls, touched, lastOp, apiPending, response, lastBlob, geomArgs, geomResult,
          enqueued, dispatched, cleaned>>

(***************************************************************************)
(* Bounds of the model.                                                    *)
(***************************************************************************)
MaxCalls == 2
MaxCacheOps == 3
MaxSide == 8
MaxLines == 3

(***************************************************************************)
(* Program constants and value domains.                                    *)
(***************************************************************************)
NULL == "null"

imageCacheMaxSize == 30

canvasHeight == 500

DefaultText == "defaultConfig.text"

DefaultWatermark == "defaultConfig.watermark"

DefaultFontFamily == "defaultConfig.fontFamily"

HtmlFontFamily == "html-font"

Truthy(x) == x # NULL /\ x # ""

\* The files a file input can deliver.
Files == { [name |-> "a", size |-> 1, data |-> "A"],
           [name |-> "b", size |-> 2, data |-> "B"] }

\* event.target.files of a file-input event: empty or one file.
FileLists == {<<>>} \cup { <<f>> : f \in Files }

Colors == {"#111111"}

Texts == {"", "A\nBB"}

Numbers == {7}

Strings == {"w"}

FileTypes == {"bg", "square"}

ColorTypes == {"bgColor", "textColor", "watermarkColor", "shadowColor", "iconColor"}

NumberTypes == {"textSize", "lineHeight", "text3D", "rotation", "squareSize",
                "shadowStrength", "bgBlur", "iconBgSize"}

StringTypes == {"text", "watermark", "font"}

Types == FileTypes \cup ColorTypes \cup NumberTypes \cup StringTypes

\* The event kinds the entrypoints are driven with: every arm of the flush's
\* switch and every shape of updater, without the kinds that differ from one
\* of these only in the RenderState field they assign.
DrivenTypes == {"bg", "bgColor", "text", "textSize", "lineHeight", "watermark",
                "square", "rotation", "shadowStrength", "font", "bgBlur"}

\* An event argument without a `target` (scheduleUpdate('bg') called with no
\* event): reading event.target.files throws a TypeError.
UndefinedEvent == [undefined |-> TRUE]

IsUndefined(event) == "undefined" \in DOMAIN event

\* The payloads an event of a given type can carry (event.target).
Events(type) ==
    IF type = "bg" THEN { [files |-> fs] : fs \in FileLists } \cup {UndefinedEvent}
    ELSE IF type \in FileTypes THEN { [files |-> fs] : fs \in FileLists }
    ELSE IF type \in ColorTypes THEN { [value |-> v] : v \in Colors }
    ELSE IF type \in NumberTypes THEN { [value |-> v] : v \in Numbers }
    ELSE IF type = "text" THEN { [value |-> v] : v \in Texts }
    ELSE { [value |-> v] : v \in Strings }


(***************************************************************************)
(* LRUCache (a Map keeps its entries in insertion order).                  *)
(***************************************************************************)
CacheKeys(cache) == { cache[i].key : i \in DOMAIN cache }

CacheHas(cache, key) == key \in CacheKeys(cache)

\* Map.prototype.delete: drops the entry of `key`, keeps the order of the rest.
CacheDelete(cache, key) == SelectSeq(cache, LAMBDA e : e.key # key)

\* LRUCache.get without the delete-and-reinsert of a hit.
LRUget_noPromote(cache, key) ==
    IF CacheHas(cache, key)
    THEN [value |-> (CHOOSE e \in { cache[i] : i \in DOMAIN cache } : e.key = key).value,
          cache |-> cache]
    ELSE [value |-> NULL, cache |-> cache]

\* LRUCache.get: the value, or null; a hit moves the entry to the end.
LRUget(cache, key) ==
    IF CacheHas(cache, key)
    THEN LET value == (CHOOSE e \in { cache[i] : i \in DOMAIN cache } : e.key = key).value
         IN [value |-> value,
             cache |-> Append(CacheDelete(cache, key), [key |-> key, value |-> value])]
    ELSE [value |-> NULL, cache |-> cache]

\* LRUCache.set with the capacity test off by one (> for >=).
LRUset_offByOne(cache, maxSize, key, value) ==
    LET kept == IF CacheHas(cache, key) THEN CacheDelete(cache, key)
                ELSE IF Len(cache) > maxSize THEN CacheDelete(cache, cache[1].key)
                ELSE cache
    IN Append(kept, [key |-> key, value |-> value])

\* LRUCache.set: re-inserts a present key at the end; otherwise drops the first
\* entry when the cache is full, then inserts at the end.
LRUset(cache, maxSize, key, value) ==
    LET kept == IF CacheHas(cache, key) THEN CacheDelete(cache, key)
                ELSE IF Len(cache) >= maxSize THEN CacheDelete(cache, cache[1].key)
                ELSE cache
    IN Append(kept, [key |-> key, value |-> value])

\* LRUCache.clear
LRUclear(cache) == <<>>

(***************************************************************************)
(* Numbers: JavaScript numbers are modelled as exact fractions n/d (d > 0, *)
(* lowest terms); the sizes the model uses are integers, halves and        *)
(* quarters, on which double arithmetic is exact.                          *)
(***************************************************************************)
Abs(x) == IF x < 0 THEN -x ELSE x

RECURSIVE GCD(_, _)
GCD(a, b) == IF b = 0 THEN a ELSE GCD(b, a % b)

\* The fraction n/d in lowest terms with a positive denominator (d # 0).
Frac(n, d) ==
    LET g == GCD(Abs(n), Abs(d))
        sign == IF d < 0 THEN -1 ELSE 1
    IN [n |-> sign * (n \div g), d |-> sign * (d \div g)]

Num(x) == [n |-> x, d |-> 1]

Add(a, b) == Frac(a.n * b.d + b.n * a.d, a.d * b.d)

Sub(a, b) == Frac(a.n * b.d - b.n * a.d, a.d * b.d)

Mul(a, b) == Frac(a.n * b.n, a.d * b.d)

\* a / b (b # 0)
Div(a, b) == Frac(a.n * b.d, a.d * b.n)

\* a > b
Gt(a, b) == a.n * b.d > b.n * a.d

(***************************************************************************)
(* The machine record: the program state the functions below transform.    *)
(***************************************************************************)
M == [state |-> state, canvas |-> canvas, ctx |-> ctx, output |-> output,
      bgCanvas |-> bgCanvas, bgFilter |-> bgFilter, textCanvas |-> textCanvas,
      watermarkCanvas |-> watermarkCanvas, squareCanvas |-> squareCanvas,
      updateQueue |-> updateQueue, updateScheduled |-> updateScheduled,
      rafPending |-> rafPending, imageCache |-> imageCache,
      readers |-> readers, images |-> images, calls |-> <<>>, updates |-> <<>>,
      bgIssued |-> bgIssued, lastSet |-> lastSet, decodeFailed |-> decodeFailed,
      thrown |-> FALSE]

Commit(m) ==
    /\ state' = m.state
    /\ canvas' = m.canvas
    /\ ctx' = m.ctx
    /\ output' = m.output
    /\ bgCanvas' = m.bgCanvas
    /\ bgFilter' = m.bgFilter
    /\ textCanvas' = m.textCanvas
    /\ watermarkCanvas' = m.watermarkCanvas
    /\ squareCanvas' = m.squareCanvas
    /\ updateQueue' = m.updateQueue
    /\ updateScheduled' = m.updateScheduled
    /\ rafPending' = m.rafPending
    /\ imageCache' = m.imageCache
    /\ readers' = m.readers
    /\ images' = m.images
    /\ calls' = m.calls
    /\ updates' = m.updates
    /\ bgIssued' = m.bgIssued
    /\ lastSet' = m.lastSet
    /\ decodeFailed' = m.decodeFailed

Log(m, f) == [m EXCEPT !.calls = Append(@, f)]

\* An uncaught TypeError: it unwinds every caller up to the handler.
Throw(m) == [Log(m, "TypeError") EXCEPT !.thrown = TRUE]

\* History of the background source updates: the last two of them.
Issue(m, what) ==
    [m EXCEPT !.bgIssued = IF @ = <<>> THEN <<what>> ELSE <<@[Len(@)], what>>]

(***************************************************************************)
(* The compositor and the four layer redraws.                              *)
(***************************************************************************)
\* composeCanvases with the icon and the watermark drawn in the other order.
composeCanvases_watermarkBelowIcon(m) ==
    IF m.ctx = NULL THEN Log(m, "composeCanvases")
    ELSE [Log(m, "composeCanvases") EXCEPT !.output =
              <<[layer |-> "bgCanvas", content |-> m.bgCanvas],
                [layer |-> "textCanvas", content |-> m.textCanvas],
                [layer |-> "watermarkCanvas", content |-> m.watermarkCanvas],
                [layer |-> "squareCanvas", content |-> m.squareCanvas]>>]

\* composeCanvases: nothing without a context; else clearRect, then the four
\* drawImage calls in the code's order.
composeCanvases(m) ==
    IF m.ctx = NULL THEN Log(m, "composeCanvases")
    ELSE LET cleared == <<>>
             withBg == Append(cleared, [layer |-> "bgCanvas", content |-> m.bgCanvas])
             withText == Append(withBg, [layer |-> "textCanvas", content |-> m.textCanvas])
             withSquare == Append(withText, [layer |-> "squareCanvas", content |-> m.squareCanvas])
             withWatermark == Append(withSquare, [layer |-> "watermarkCanvas", content |-> m.watermarkCanvas])
         IN [Log(m, "composeCanvases") EXCEPT !.output = withWatermark]

\* drawBackground with the clearRect only on the colour path.
drawBackground_noClear(m) ==
    LET m1 == Log(m, "drawBackground")
    IN IF Truthy(m1.state.bgImageUrl)
       THEN [m1 EXCEPT !.images = Append(@, [layer |-> "background", src |-> m1.state.bgImageUrl,
                                             before |-> m.bgCanvas])]
       ELSE composeCanvases([m1 EXCEPT !.bgCanvas =
                <<[op |-> "fillRect", fillStyle |-> m1.state.bgColor, filter |-> m1.bgFilter]>>])

\* drawBackground: clearRect; with an image source start a decode (the drawing
\* happens in its onload), otherwise fillRect with bgColor and compose.
drawBackground(m) ==
    LET m1 == [Log(m, "drawBackground") EXCEPT !.bgCanvas = <<>>]
    IN IF Truthy(m1.state.bgImageUrl)
       THEN [m1 EXCEPT !.images = Append(@, [layer |-> "background", src |-> m1.state.bgImageUrl,
                                             before |-> m.bgCanvas])]
       ELSE composeCanvases([m1 EXCEPT !.bgCanvas =
                Append(@, [op |-> "fillRect", fillStyle |-> m1.state.bgColor, filter |-> m1.bgFilter])])

\* img.onload of drawBackground without its composeCanvases call.
bgImageOnload_noCompose(m, src) ==
    LET blur == m.state.bgBlur
    IN [Log(m, "img.onload") EXCEPT !.bgFilter = blur,
                                    !.bgCanvas = Append(@, [op |-> "drawImage", src |-> src, filter |-> blur])]

\* img.onload of drawBackground: set the blur filter, draw the image, compose.
bgImageOnload(m, src) ==
    LET blur == m.state.bgBlur
    IN composeCanvases([Log(m, "img.onload") EXCEPT !.bgFilter = blur,
                                 !.bgCanvas = Append(@, [op |-> "drawImage", src |-> src, filter |-> blur])])

\* drawSquareImage: clearRect; with an icon source start a decode, otherwise compose.
drawSquareImage(m) ==
    LET m1 == [Log(m, "drawSquareImage") EXCEPT !.squareCanvas = <<>>]
    IN IF Truthy(m1.state.squareImageUrl)
       THEN [m1 EXCEPT !.images = Append(@, [layer |-> "square", src |-> m1.state.squareImageUrl,
                                             before |-> m.squareCanvas])]
       ELSE composeCanvases(m1)

borderWidth == 20

\* The width and height of the decoded image of a data URL.
NaturalSize(src) ==
    IF src = "data:A" THEN [width |-> 400, height |-> 200]
    ELSE [width |-> 200, height |-> 400]

\* squareImg.onload, "Calculate scale" with the test for the wider side reversed.
AspectFit_reversed(totalSize, width, height) ==
    LET size == Num(totalSize - 2 * borderWidth)
        imgAspectRatio == Div(Num(width), Num(height))
        containerAspectRatio == Div(size, size)
        fitWidth == ~Gt(imgAspectRatio, containerAspectRatio)
        scaledWidth == IF fitWidth THEN size ELSE Mul(size, imgAspectRatio)
        scaledHeight == IF fitWidth THEN Div(size, imgAspectRatio) ELSE size
        offsetX == Div(Sub(size, scaledWidth), Num(2))
        offsetY == Div(Sub(size, scaledHeight), Num(2))
    IN [x |-> Add(Num(borderWidth), offsetX), y |-> Add(Num(borderWidth), offsetY),
        width |-> scaledWidth, height |-> scaledHeight]

\* squareImg.onload, "Calculate scale": the rectangle of the working buffer
\* the image is drawn into (size is the side of the clipped inner box).
AspectFit(totalSize, width, height) ==
    LET size == Num(totalSize - 2 * borderWidth)
        imgAspectRatio == Div(Num(width), Num(height))
        containerAspectRatio == Div(size, size)
        fitWidth == Gt(imgAspectRatio, containerAspectRatio)
        scaledWidth == IF fitWidth THEN size ELSE Mul(size, imgAspectRatio)
        scaledHeight == IF fitWidth THEN Div(size, imgAspectRatio) ELSE size
        offsetX == Div(Sub(size, scaledWidth), Num(2))
        offsetY == Div(Sub(size, scaledHeight), Num(2))
    IN [x |-> Add(Num(borderWidth), offsetX), y |-> Add(Num(borderWidth), offsetY),
        width |-> scaledWidth, height |-> scaledHeight]

\* squareImg.onload of drawSquareImage: draw the icon with the state read now.
squareImageOnload(m, src) ==
    composeCanvases([Log(m, "squareImg.onload") EXCEPT !.squareCanvas =
        Append(@, [op |-> "drawImage", src |-> src,
                   dest |-> AspectFit(m.state.squareSize, NaturalSize(src).width,
                                      NaturalSize(src).height),
                   totalSize |-> m.state.squareSize,
                   iconBgSize |-> m.state.iconBgSize,
                   iconColor |-> m.state.iconColor,
                   shadowColor |-> m.state.shadowColor,
                   shadowBlur |-> m.state.shadowBlur,
                   shadowOffsetX |-> m.state.shadowOffsetX,
                   shadowOffsetY |-> m.state.shadowOffsetY,
                   rotation |-> m.state.rotation])])

\* The font string of drawText and drawWatermark.
FontOf(st) ==
    IF Truthy(st.selectedFont) THEN st.selectedFont \o ", " \o HtmlFontFamily
    ELSE HtmlFontFamily

\* String.prototype.split('\n') on the texts of the model.
split(text) == IF text = "A\nBB" THEN <<"A", "BB">> ELSE <<text>>

\* String.prototype.includes('\n')
includesNewline(text) == Len(split(text)) > 1

\* drawText, "Handle multi-line text" without the half line added to startY.
TextBaselines_noHalfLine(textSize, multiplier, lineCount) ==
    LET lineHeight == Mul(textSize, multiplier)
        totalHeight == Mul(lineHeight, Num(lineCount))
        startY == Div(Sub(Num(canvasHeight), totalHeight), Num(2))
    IN [index \in 0..(lineCount - 1) |-> Add(startY, Mul(Num(index), lineHeight))]

\* drawText, "Handle multi-line text": the y of each line (index 0-based), for
\* state.textSize, state.lineHeight and lines.length.
TextBaselines(textSize, multiplier, lineCount) ==
    LET lineHeight == Mul(textSize, multiplier)
        totalHeight == Mul(lineHeight, Num(lineCount))
        startY == Add(Div(Sub(Num(canvasHeight), totalHeight), Num(2)),
                      Div(lineHeight, Num(2)))
    IN [index \in 0..(lineCount - 1) |-> Add(startY, Mul(Num(index), lineHeight))]

\* drawText: clearRect, set font, colour and shadow, fill each line, compose.
drawText(m) ==
    LET m1 == [Log(m, "drawText") EXCEPT !.textCanvas = <<>>]
        st == m1.state
        lines == split(st.text)
        lineHeight == st.textSize * st.lineHeight
    IN composeCanvases([m1 EXCEPT !.textCanvas =
           Append(@, [op |-> "fillText", lines |-> lines, font |-> FontOf(st),
                      size |-> st.textSize, fillStyle |-> st.textColor,
                      lineHeight |-> lineHeight,
                      ys |-> TextBaselines(Num(st.textSize), Num(st.lineHeight), Len(lines)),
                      shadowOffset |-> IF st.text3D > 0 THEN st.text3D ELSE 0])])

\* drawWatermark: clearRect, fill the watermark text, compose.
drawWatermark(m) ==
    LET m1 == [Log(m, "drawWatermark") EXCEPT !.watermarkCanvas = <<>>]
        st == m1.state
    IN composeCanvases([m1 EXCEPT !.watermarkCanvas =
           Append(@, [op |-> "fillText", text |-> st.watermark, font |-> FontOf(st),
                      fillStyle |-> st.watermarkColor])])

(***************************************************************************)
(* Image loading.                                                          *)
(***************************************************************************)
\* file.name + file.size (string concatenation)
cacheKeyOf(file) == file.name \o ToString(file.size)

\* FileReader.readAsDataURL: the data URL of the file's content.
DataURL(file) == "data:" \o file.data

\* The callback updateBackgroundImage passes to loadImage.
bgImageCallback(m, url) == drawBackground([m EXCEPT !.state.bgImageUrl = url])

\* The callback updateSquareImage passes to loadImage.
squareImageCallback(m, url) == drawSquareImage([m EXCEPT !.state.squareImageUrl = url])

imageCallback(m, layer, url) ==
    IF layer = "background" THEN bgImageCallback(m, url) ELSE squareImageCallback(m, url)

\* loadImage: a cache hit calls back at once; a miss starts a FileReader read.
loadImage(m, file, layer) ==
    LET got == LRUget(m.imageCache, cacheKeyOf(file))
        m1 == [m EXCEPT !.imageCache = got.cache]
    IN IF Truthy(got.value)
       THEN imageCallback(m1, layer, got.value)
       ELSE [m1 EXCEPT !.readers = Append(@, [layer |-> layer, file |-> file])]

\* reader.onload of loadImage: store the data URL in the cache, call back.
readerOnload(m, r) ==
    LET result == DataURL(r.file)
        m1 == [Log(m, "reader.onload") EXCEPT
                   !.imageCache = LRUset(@, imageCacheMaxSize, cacheKeyOf(r.file), result)]
    IN imageCallback(m1, r.layer, result)

(***************************************************************************)
(* The update functions.                                                   *)
(***************************************************************************)
updateBackgroundImage(m, event) ==
    IF IsUndefined(event) THEN Throw(m)
    ELSE IF event.files # <<>>
    THEN loadImage([Issue(m, "image") EXCEPT !.lastSet.background = event.files[1]],
                   event.files[1], "background")
    ELSE m

updateBackgroundColor(m, event) ==
    drawBackground([Issue(m, "color") EXCEPT !.state.bgColor = event.value,
                                             !.state.bgImageUrl = NULL])

updateTextColor(m, event) == drawText([m EXCEPT !.state.textColor = event.value])

updateWatermarkColor(m, event) == drawWatermark([m EXCEPT !.state.watermarkColor = event.value])

updateSquareImage(m, event) ==
    IF event.files # <<>>
    THEN loadImage([m EXCEPT !.lastSet.square = event.files[1]], event.files[1], "square")
    ELSE m

updateRotation(m, event) == drawSquareImage([m EXCEPT !.state.rotation = event.value])

updateText(m, event) ==
    LET text == IF event.value # "" THEN event.value ELSE DefaultText
    IN drawText([m EXCEPT !.state.text = text, !.state.hasMultipleLines = includesNewline(text)])

updateWatermark(m, event) == drawWatermark([m EXCEPT !.state.watermark = event.value])

updateTextSize(m, event) == drawText([m EXCEPT !.state.textSize = event.value])

updateSquareSize(m, event) == drawSquareImage([m EXCEPT !.state.squareSize = event.value])

updateBgBlur(m, event) == drawBackground([m EXCEPT !.state.bgBlur = event.value])

updateIconColor(m, event) == drawSquareImage([m EXCEPT !.state.iconColor = event.value])

\* Number(event.target.value); numeric payloads are modelled by their number.
updateIconBgSize(m, event) == drawSquareImage([m EXCEPT !.state.iconBgSize = event.value])

updateShadowColor(m, event) == drawSquareImage([m EXCEPT !.state.shadowColor = event.value])

\* Reads state.shadowStrength, not the event.
updateShadowStrength(m, event) ==
    LET strength == m.state.shadowStrength
    IN drawSquareImage([m EXCEPT !.state.shadowBlur = strength * 2,
                                 !.state.shadowOffsetX = 0,
                                 !.state.shadowOffsetY = 0])

updateText3D(m, event) == drawText([m EXCEPT !.state.text3D = event.value])

updateFont(m, event) == drawWatermark(drawText([m EXCEPT !.state.selectedFont = event.value]))

\* updateByType: the updateFunctions table; the lineHeight entry does nothing.
updateByType(m, type, event) ==
    CASE type = "bg" -> updateBackgroundImage(m, event)
      [] type = "bgColor" -> updateBackgroundColor(m, event)
      [] type = "textColor" -> updateTextColor(m, event)
      [] type = "watermarkColor" -> updateWatermarkColor(m, event)
      [] type = "square" -> updateSquareImage(m, event)
      [] type = "rotation" -> updateRotation(m, event)
      [] type = "text" -> updateText(m, event)
      [] type = "watermark" -> updateWatermark(m, event)
      [] type = "textSize" -> updateTextSize(m, event)
      [] type = "squareSize" -> updateSquareSize(m, event)
      [] type = "bgBlur" -> updateBgBlur(m, event)
      [] type = "iconColor" -> updateIconColor(m, event)
      [] type = "iconBgSize" -> updateIconBgSize(m, event)
      [] type = "font" -> updateFont(m, event)
      [] type = "lineHeight" -> m
      [] type = "text3D" -> updateText3D(m, event)
      [] type = "shadowColor" -> updateShadowColor(m, event)
      [] type = "shadowStrength" -> updateShadowStrength(m, event)
      [] OTHER -> m

(***************************************************************************)
(* The batch update scheduler.                                             *)
(***************************************************************************)
\* scheduleUpdate: enqueue; arm a frame callback unless one is flagged.
scheduleUpdate(m, type, event) ==
    LET m1 == [Log(m, "scheduleUpdate") EXCEPT
                   !.updateQueue = Append(@, [type |-> type, event |-> event])]
    IN IF ~m1.updateScheduled
       THEN [m1 EXCEPT !.updateScheduled = TRUE, !.rafPending = @ + 1]
       ELSE m1

NoRedraw == [background |-> FALSE, text |-> FALSE, watermark |-> FALSE, square |-> FALSE]

\* One iteration of the for-of loop of processBatchUpdates: the switch ("case"
\* in the call log marks the event being handed to its updater).
BatchStep(acc, update) ==
    LET type == update.type
        event == update.event
        m0 == Log(acc.m, "case")
    IN CASE type = "bg" ->
              [m |-> updateBackgroundImage(m0, event),
               needsRedraw |-> [acc.needsRedraw EXCEPT !.background = TRUE]]
         [] type = "bgColor" ->
              [m |-> updateBackgroundColor(m0, event),
               needsRedraw |-> [acc.needsRedraw EXCEPT !.background = TRUE]]
         [] type \in {"text", "textSize", "textColor", "lineHeight", "text3D"} ->
              [m |-> updateByType(m0, type, event),
               needsRedraw |-> [acc.needsRedraw EXCEPT !.text = TRUE]]
         [] type \in {"watermark", "watermarkColor"} ->
              [m |-> updateByType(m0, type, event),
               needsRedraw |-> [acc.needsRedraw EXCEPT !.watermark = TRUE]]
         [] type \in {"square", "rotation", "squareSize", "shadowStrength", "shadowColor"} ->
              [m |-> updateByType(m0, type, event),
               needsRedraw |-> [acc.needsRedraw EXCEPT !.square = TRUE]]
         [] OTHER ->
              [m |-> updateByType(m0, type, event), needsRedraw |-> acc.needsRedraw]

\* The for-of loop: an updater that throws ends it (there is no try/catch).
RECURSIVE BatchLoop(_, _)
BatchLoop(acc, rest) ==
    IF rest = <<>> \/ acc.m.thrown THEN acc
    ELSE BatchLoop(BatchStep(acc, Head(rest)), Tail(rest))

\* The batched redraws with the text layer redrawn whatever the flags say.
BatchRedraws_textAlways(m, needsRedraw) ==
    LET m1 == IF needsRedraw.background THEN drawBackground(m) ELSE m
        m2 == drawText(m1)
        m3 == IF needsRedraw.watermark THEN drawWatermark(m2) ELSE m2
        m4 == IF needsRedraw.square THEN drawSquareImage(m3) ELSE m3
    IN composeCanvases(m4)

\* The batched redraws after the loop, then the final compose.
BatchRedraws(m, needsRedraw) ==
    LET m1 == IF needsRedraw.background THEN drawBackground(m) ELSE m
        m2 == IF needsRedraw.text THEN drawText(m1) ELSE m1
        m3 == IF needsRedraw.watermark THEN drawWatermark(m2) ELSE m2
        m4 == IF needsRedraw.square THEN drawSquareImage(m3) ELSE m3
    IN composeCanvases(m4)

\* processBatchUpdates: drain the queue, clear the flag, apply, redraw, compose.
processBatchUpdates(m) ==
    LET m1 == [Log(m, "processBatchUpdates") EXCEPT !.updates = m.updateQueue,
                                                    !.updateQueue = <<>>,
                                                    !.updateScheduled = FALSE]
        done == BatchLoop([m |-> m1, needsRedraw |-> NoRedraw], m1.updates)
    IN IF done.m.thrown THEN done.m ELSE BatchRedraws(done.m, done.needsRedraw)

\* initialize with the watermark left out of the initial draw.
initialize_noWatermark(m, exists) ==
    LET m1 == [Log(m, "initialize") EXCEPT
                   !.canvas = IF exists THEN "canvasPreview" ELSE NULL]
    IN IF m1.canvas = NULL THEN m1
       ELSE drawSquareImage(drawText(drawBackground([m1 EXCEPT !.ctx = "2d"])))

\* initialize without the early return for a missing element.
initialize_noEarlyReturn(m, exists) ==
    LET m1 == [Log(m, "initialize") EXCEPT
                   !.canvas = IF exists THEN "canvasPreview" ELSE NULL]
    IN drawSquareImage(drawWatermark(drawText(drawBackground([m1 EXCEPT !.ctx = "2d"]))))

\* initialize: look the element up; without it log and return; else take the
\* context and draw the four layers.
initialize(m, exists) ==
    LET m1 == [Log(m, "initialize") EXCEPT
                   !.canvas = IF exists THEN "canvasPreview" ELSE NULL]
    IN IF m1.canvas = NULL THEN m1
       ELSE drawSquareImage(drawWatermark(drawText(drawBackground([m1 EXCEPT !.ctx = "2d"]))))

\* cleanup without the updateQueue.clear() call.
cleanup_keepsQueue(m) ==
    [Log(m, "cleanup") EXCEPT !.imageCache = LRUclear(@), !.updateScheduled = FALSE]

\* cleanup
cleanup(m) ==
    [Log(m, "cleanup") EXCEPT !.imageCache = LRUclear(@), !.updateQueue = <<>>,
                              !.updateScheduled = FALSE]

(***************************************************************************)
(* The system: the renderer driven by its entrypoints and callbacks.       *)
(***************************************************************************)
InitState ==
    [bgImageUrl |-> NULL, squareImageUrl |-> NULL, bgColor |-> "#ffffff",
     textColor |-> "#eeeeee", watermarkColor |-> "#dddddd", iconColor |-> "#eeeeee",
     rotation |-> 0, shadowColor |-> "#646464", shadowBlur |-> 120,
     shadowOffsetX |-> 1, shadowOffsetY |-> 1, shadowStrength |-> 60,
     watermark |-> DefaultWatermark, textSize |-> 200, lineHeight |-> 1,
     text3D |-> 0, squareSize |-> 300, text |-> DefaultText, bgBlur |-> 3,
     iconBgSize |-> 0, selectedFont |-> DefaultFontFamily,
     isFontMenuOpen |-> FALSE, hasMultipleLines |-> FALSE]

NoFile == [name |-> "", size |-> 0, data |-> ""]

NoOp == [op |-> "none", key |-> "", n |-> 0]

InitRenderer ==
    /\ state = InitState
    /\ canvas = NULL
    /\ ctx = NULL
    /\ output = <<>>
    /\ bgCanvas = <<>>
    /\ bgFilter = "none"
    /\ textCanvas = <<>>
    /\ watermarkCanvas = <<>>
    /\ squareCanvas = <<>>
    /\ updateQueue = <<>>
    /\ updateScheduled = FALSE
    /\ rafPending = 0
    /\ readers = <<>>
    /\ images = <<>>
    /\ calls = <<>>
    /\ updates = <<>>
    /\ bgIssued = <<>>
    /\ lastSet = [background |-> NoFile, square |-> NoFile]
    /\ decodeFailed = FALSE
    /\ nCalls = 0

NoResponse == [endpoint |-> "none"]

NoBlob == [callback |-> FALSE]

NoArgs == [fn |-> "none"]

\* No API call made, no geometry computed, nothing scheduled.
InitOthers ==
    /\ apiPending = <<>>
    /\ response = NoResponse
    /\ lastBlob = NoBlob
    /\ geomArgs = NoArgs
    /\ geomResult = NoArgs
    /\ enqueued = <<>>
    /\ dispatched = <<>>
    /\ cleaned = [done |-> FALSE, state |-> InitState]

Init ==
    /\ InitRenderer
    /\ InitOthers
    /\ elementExists = FALSE
    /\ imageCache = <<>>
    /\ touched = <<>>
    /\ lastOp = NoOp

cacheGhost == <<touched, lastOp>>

api == <<apiPending, response, lastBlob>>

geometry == <<geomArgs, geomResult>>

schedGhost == <<enqueued, dispatched>>

\* What the renderer's own handlers leave alone.
ghosts == <<cacheGhost, api, geometry, schedGhost>>

others == <<ghosts, cleaned>>

\* The host page mounts the #canvasPreview element; it stays for the session.
MountElement ==
    /\ ~elementExists
    /\ elementExists' = TRUE
    /\ Commit(M)
    /\ UNCHANGED <<nCalls, others>>

Initialize ==
    /\ nCalls < MaxCalls
    /\ nCalls' = nCalls + 1
    /\ Commit(initialize(M, elementExists))
    /\ UNCHANGED <<elementExists, others>>

ScheduleUpdate ==
    /\ nCalls < MaxCalls
    /\ nCalls' = nCalls + 1
    /\ \E type \in DrivenTypes : \E event \in Events(type) :
           Commit(scheduleUpdate(M, type, event))
    /\ UNCHANGED <<elementExists, others>>

\* A frame callback armed by scheduleUpdate fires.
FrameCallback ==
    /\ rafPending > 0
    /\ Commit(processBatchUpdates([M EXCEPT !.rafPending = @ - 1]))
    /\ UNCHANGED <<elementExists, nCalls, others>>

\* A direct call of one of the exported update functions.
Update ==
    /\ nCalls < MaxCalls
    /\ nCalls' = nCalls + 1
    /\ \E type \in DrivenTypes \ {"lineHeight"} : \E event \in Events(type) :
           Commit(updateByType(M, type, event))
    /\ UNCHANGED <<elementExists, others>>

\* A direct call of the exported composeCanvases.
ComposeCanvases ==
    /\ Commit(composeCanvases(M))
    /\ UNCHANGED <<elementExists, nCalls, others>>

Cleanup ==
    /\ Commit(cleanup(M))
    /\ UNCHANGED <<elementExists, nCalls, others>>

RemoveAt(seq, i) == SubSeq(seq, 1, i - 1) \o SubSeq(seq, i + 1, Len(seq))

\* A FileReader read completes (reads complete in any order).
ReaderOnload ==
    /\ \E i \in DOMAIN readers :
           Commit(readerOnload([M EXCEPT !.readers = RemoveAt(@, i)], readers[i]))
    /\ UNCHANGED <<elementExists, nCalls, others>>

\* An Image decode completes (decodes complete in any order).
ImageOnload ==
    /\ \E i \in DOMAIN images :
           LET m == [M EXCEPT !.images = RemoveAt(@, i)]
           IN Commit(IF images[i].layer = "background"
                     THEN bgImageOnload(m, images[i].src)
                     ELSE squareImageOnload(m, images[i].src))
    /\ UNCHANGED <<elementExists, nCalls, others>>

\* An Image decode fails: no onerror handler is set, nothing runs.
ImageError ==
    /\ \E i \in DOMAIN images :
           Commit([M EXCEPT !.images = RemoveAt(@, i), !.decodeFailed = TRUE])
    /\ UNCHANGED <<elementExists, nCalls, others>>

Next ==
    \/ MountElement
    \/ Initialize
    \/ ScheduleUpdate
    \/ FrameCallback
    \/ Update
    \/ ComposeCanvases
    \/ Cleanup
    \/ ReaderOnload
    \/ ImageOnload
    \/ ImageError

Spec == Init /\ [][Next]_vars

(***************************************************************************)
(* The image cache on its own: get, set and clear applied to imageCache    *)
(* (capacity 30), starting empty or as the first n of 30 files loaded one  *)
(* after the other leave it.  `touched` records when each key was last     *)
(* touched by a get hit or a set.                                          *)
(***************************************************************************)
CacheFile(i) == [name |-> "f", size |-> i, data |-> ToString(i)]

\* What loading files 1..n (n <= 30) one after the other leaves in the cache:
\* each miss appends its entry.
Loaded(n) ==
    [i \in 1..n |-> [key |-> cacheKeyOf(CacheFile(i)), value |-> DataURL(CacheFile(i))]]

Prefills == {0, imageCacheMaxSize - 1, imageCacheMaxSize}

CacheInputKeys ==
    { cacheKeyOf(CacheFile(i)) : i \in {1, 2, imageCacheMaxSize, imageCacheMaxSize + 1,
                                        imageCacheMaxSize + 2} }

CacheInputValues == {"data:A", "data:B"}

\* The time of the operation about to run (the prefill took times 1..30).
Now == imageCacheMaxSize + lastOp.n + 1

Touch(t, key, time) == [k \in DOMAIN t \cup {key} |-> IF k = key THEN time ELSE t[k]]

InitCache ==
    /\ InitRenderer
    /\ InitOthers
    /\ elementExists = FALSE
    /\ \E n \in Prefills :
           /\ imageCache = Loaded(n)
           /\ touched = [k \in { cacheKeyOf(CacheFile(i)) : i \in 1..n } |->
                            CHOOSE i \in 1..n : cacheKeyOf(CacheFile(i)) = k]
    /\ lastOp = NoOp

renderer == <<state, canvas, ctx, elementExists, output, bgCanvas, bgFilter, textCanvas,
              watermarkCanvas, squareCanvas, updateQueue, updateScheduled, rafPending,
              readers, images, calls, updates, bgIssued, lastSet, decodeFailed, nCalls>>

CacheGet ==
    /\ lastOp.n < MaxCacheOps
    /\ \E key \in CacheInputKeys :
           /\ imageCache' = LRUget(imageCache, key).cache
           /\ touched' = IF LRUget(imageCache, key).value # NULL
                         THEN Touch(touched, key, Now) ELSE touched
           /\ lastOp' = [op |-> "get", key |-> key, n |-> lastOp.n + 1]
    /\ UNCHANGED <<renderer, api, geometry, schedGhost, cleaned>>

CacheSet ==
    /\ lastOp.n < MaxCacheOps
    /\ \E key \in CacheInputKeys : \E value \in CacheInputValues :
           /\ imageCache' = LRUset(imageCache, imageCacheMaxSize, key, value)
           /\ touched' = Touch(touched, key, Now)
           /\ lastOp' = [op |-> "set", key |-> key, n |-> lastOp.n + 1]
    /\ UNCHANGED <<renderer, api, geometry, schedGhost, cleaned>>

CacheClear ==
    /\ lastOp.n < MaxCacheOps
    /\ imageCache' = LRUclear(imageCache)
    /\ touched' = touched
    /\ lastOp' = [op |-> "clear", key |-> "", n |-> lastOp.n + 1]
    /\ UNCHANGED <<renderer, api, geometry, schedGhost, cleaned>>

NextCache == CacheGet \/ CacheSet \/ CacheClear

SpecCache == InitCache /\ [][NextCache]_vars

(***************************************************************************)
(* The cover API (autoGenerate.js and the endpoints of part_000).          *)
(***************************************************************************)
UNDEFINED == "undefined"

\* A destructuring default: it applies to undefined only.
Default(x, d) == IF x = UNDEFINED THEN d ELSE x

\* null as the data of a response, or as the blob handed to a toBlob callback.
Nothing == [nothing |-> TRUE]

IsNothing(x) == "nothing" \in DOMAIN x

colorSchemes ==
    <<[name |-> "tech-blue", bg |-> "#1a1a2e", text |-> "#ffffff", watermark |-> "#94a3b8"],
      [name |-> "vivid-orange", bg |-> "#ff6b35", text |-> "#ffffff", watermark |-> "#ffd9c4"],
      [name |-> "fresh-green", bg |-> "#10b981", text |-> "#ffffff", watermark |-> "#a7f3d0"],
      [name |-> "elegant-purple", bg |-> "#7c3aed", text |-> "#ffffff", watermark |-> "#ddd6fe"],
      [name |-> "minimal-white", bg |-> "#fafafa", text |-> "#1f2937", watermark |-> "#9ca3af"],
      [name |-> "night-black", bg |-> "#0f0f0f", text |-> "#f5f5f5", watermark |-> "#737373"],
      [name |-> "sun-yellow", bg |-> "#f59e0b", text |-> "#ffffff", watermark |-> "#fef3c7"],
      [name |-> "mint-cyan", bg |-> "#14b8a6", text |-> "#ffffff", watermark |-> "#ccfbf1"],
      [name |-> "rose-pink", bg |-> "#ec4899", text |-> "#ffffff", watermark |-> "#fce7f3"],
      [name |-> "deep-sea-blue", bg |-> "#0369a1", text |-> "#ffffff", watermark |-> "#bae6fd"]>>

\* The titles of the model and the keywords they contain, lower-cased (of the
\* keyword lists only 'AI', 'UI' and 'UX' can occur in these titles).
Titles == {"AI", "UI design"}

includes(title, word) ==
    \/ title = "AI" /\ word = "ai"
    \/ title = "UI design" /\ word = "ui"

keywords == [tech |-> {"ai"}, design |-> {"ui", "ux"}, life |-> {}, business |-> {},
             education |-> {}]

categories == <<"tech", "design", "life", "business", "education">>

\* analyzeTitle: the category with the highest score, the first one on a tie.
analyzeTitle(title) ==
    LET scores == [c \in DOMAIN keywords |->
                      Cardinality({ word \in keywords[c] : includes(title, word) })]
        best == CHOOSE i \in DOMAIN categories :
                    /\ \A j \in DOMAIN categories : scores[categories[j]] <= scores[categories[i]]
                    /\ \A j \in 1..(i - 1) : scores[categories[j]] < scores[categories[i]]
    IN [category |-> categories[best], length |-> Len(title),
        hasMultipleLines |-> includesNewline(title), complexity |-> scores]

\* categoryMap, as indices into colorSchemes (1-based here).
categoryMap == [tech |-> <<1, 10>>, design |-> <<4, 8>>, life |-> <<3, 9>>,
                business |-> <<2, 5>>, education |-> <<6, 7>>]

\* selectColorScheme; `random` is the index Math.random picks.
selectColorScheme(analysis, random) == colorSchemes[categoryMap[analysis.category][random]]

\* colorSchemes.find(c => c.name === style) || colorSchemes[0]
findScheme(style) ==
    IF \E i \in DOMAIN colorSchemes : colorSchemes[i].name = style
    THEN colorSchemes[CHOOSE i \in DOMAIN colorSchemes : colorSchemes[i].name = style]
    ELSE colorSchemes[1]

\* calculateOptimalFontSize with baseSize = 200
calculateOptimalFontSize(title) ==
    LET length == Len(title)
    IN IF length <= 4 THEN 200
       ELSE IF length <= 8 THEN 160
       ELSE IF length <= 12 THEN 130
       ELSE IF length <= 20 THEN 100
       ELSE 80

\* generateCover up to its `await import(...)`: analysis, scheme, font size,
\* the RenderState assignments; returns the machine and the result to come.
generateCoverBegin(m, options, random) ==
    LET title == Default(options.title, DefaultText)
        image == Default(options.image, NULL)
        style == Default(options.style, "auto")
        watermark == Default(options.watermark, DefaultWatermark)
        analysis == analyzeTitle(title)
        colorScheme == IF style = "auto" THEN selectColorScheme(analysis, random)
                       ELSE findScheme(style)
        optimalFontSize == calculateOptimalFontSize(title)
        st == [m.state EXCEPT !.text = title, !.watermark = watermark,
                              !.bgColor = colorScheme.bg, !.textColor = colorScheme.text,
                              !.watermarkColor = colorScheme.watermark,
                              !.textSize = optimalFontSize,
                              !.selectedFont = "HarmonyOS Sans SC",
                              !.bgImageUrl = IF Truthy(image) THEN image ELSE NULL,
                              !.bgBlur = IF Truthy(image) THEN 8 ELSE 0]
    IN [m |-> [Log(m, "generateCover") EXCEPT !.state = st],
        result |-> [success |-> TRUE, analysis |-> analysis, colorScheme |-> colorScheme,
                    settings |-> [title |-> title, fontSize |-> optimalFontSize]]]

\* generateCover after the await: the four redraws.
generateCoverEnd(m) == drawSquareImage(drawWatermark(drawText(drawBackground(m))))

createResponse(success, data, message) ==
    [success |-> success, data |-> data, message |-> message]

\* apiEndpoints.generate without the test for an empty title.
apiEndpoints_generate_noValidation(m, params, random) ==
    LET title == Default(params.title, "")
        g == generateCoverBegin(Log(m, "apiEndpoints.generate"),
                 [title |-> title, image |-> Default(params.image, NULL),
                  style |-> Default(params.style, "auto"),
                  watermark |-> Default(params.watermark, "")], random)
    IN [m |-> g.m, done |-> FALSE,
        pending |-> [endpoint |-> "generate", params |-> params, result |-> g.result]]

\* apiEndpoints.generate up to its first await: an empty or missing title is
\* answered at once; otherwise generateCover starts.
apiEndpoints_generate(m, params, random) ==
    LET title == Default(params.title, "")
        m1 == Log(m, "apiEndpoints.generate")
    IN IF ~Truthy(title)
       THEN [m |-> m1, done |-> TRUE,
             response |-> createResponse(FALSE, Nothing, "title must not be empty")]
       ELSE LET g == generateCoverBegin(m1,
                         [title |-> title, image |-> Default(params.image, NULL),
                          style |-> Default(params.style, "auto"),
                          watermark |-> Default(params.watermark, "")], random)
            IN [m |-> g.m, done |-> FALSE,
                pending |-> [endpoint |-> "generate", params |-> params, result |-> g.result]]

\* Array.isArray on the titles of the model.
isArray(titles) == titles.kind = "array"

\* The options coverAPI.batchGenerate spreads into every generateCover call.
BatchOptions(params, title) ==
    [title |-> title, image |-> params.image, style |-> params.style,
     watermark |-> params.watermark]

\* apiEndpoints.batchGenerate up to its first await: an empty list or a value
\* that is no array is answered at once; otherwise coverAPI.batchGenerate
\* starts generateCover for the first title.
apiEndpoints_batchGenerate(m, params, random) ==
    LET titles == IF params.titles.kind = "undefined" THEN [kind |-> "array", items |-> <<>>]
                  ELSE params.titles
        m1 == Log(m, "apiEndpoints.batchGenerate")
    IN IF ~isArray(titles) \/ Len(titles.items) = 0
       THEN [m |-> m1, done |-> TRUE,
             response |-> createResponse(FALSE, Nothing, "title list must not be empty")]
       ELSE LET g == generateCoverBegin(m1, BatchOptions(params, titles.items[1]), random)
            IN [m |-> g.m, done |-> FALSE,
                pending |-> [endpoint |-> "batchGenerate", params |-> params,
                             result |-> g.result, rest |-> Tail(titles.items),
                             results |-> <<>>]]

\* The continuation of a suspended generateCover: the redraws; then the
\* response of generate, or the next title of the batch, or the batch's response.
generateResume(m, p, random) ==
    LET m1 == generateCoverEnd(Log(m, "generateCover.resume"))
    IN IF p.endpoint = "generate"
       THEN [m |-> m1, done |-> TRUE,
             response |-> createResponse(TRUE, p.result, "cover generated")]
       ELSE LET results == Append(p.results, p.result)
            IN IF p.rest = <<>>
               THEN [m |-> m1, done |-> TRUE,
                     response |-> createResponse(TRUE, [results |-> results], "covers generated")]
               ELSE LET g == generateCoverBegin(m1, BatchOptions(p.params, Head(p.rest)), random)
                    IN [m |-> g.m, done |-> FALSE,
                        pending |-> [p EXCEPT !.result = g.result, !.rest = Tail(p.rest),
                                              !.results = results]]

\* canvas.toBlob: the encoded image of the surface, or null.
Blob(format, content) ==
    [type |-> "image/" \o format, size |-> 1 + Len(content), content |-> content]

\* The toBlob callback of coverAPI.export resolving whatever it is given.
coverAPI_export_callback_noNullTest(blob) ==
    [status |-> "fulfilled",
     value |-> [blob |-> blob, url |-> "blob:url",
                size |-> IF IsNothing(blob) THEN 0 ELSE blob.size,
                type |-> IF IsNothing(blob) THEN "" ELSE blob.type]]

\* The toBlob callback of coverAPI.export: resolve with the blob, or reject.
coverAPI_export_callback(blob) ==
    IF ~IsNothing(blob)
    THEN [status |-> "fulfilled",
          value |-> [blob |-> blob, url |-> "blob:url", size |-> blob.size, type |-> blob.type]]
    ELSE [status |-> "rejected", error |-> "Export failed"]

\* coverAPI.export up to toBlob: without the element it throws (the promise
\* of the async function is rejected).
coverAPI_export(exists) ==
    IF ~exists THEN [status |-> "rejected", error |-> "Canvas not found"]
    ELSE [status |-> "pending"]

\* apiEndpoints.export around the settled promise of coverAPI.export.
apiEndpoints_export(settled) ==
    IF settled.status = "fulfilled" THEN createResponse(TRUE, settled.value, "exported")
    ELSE createResponse(FALSE, Nothing,
                        IF settled.error # "" THEN settled.error ELSE "export failed")

\* The params objects the endpoints are called with.
GenerateParams ==
    { [title |-> UNDEFINED, image |-> UNDEFINED, style |-> UNDEFINED, watermark |-> UNDEFINED],
      [title |-> "", image |-> "data:A", style |-> "minimal-white", watermark |-> "w"],
      [title |-> "AI", image |-> UNDEFINED, style |-> UNDEFINED, watermark |-> UNDEFINED],
      [title |-> "AI", image |-> "data:A", style |-> "minimal-white", watermark |-> "w"] }

TitleLists ==
    { [kind |-> "undefined", items |-> <<>>], [kind |-> "string", items |-> <<>>],
      [kind |-> "array", items |-> <<>>], [kind |-> "array", items |-> <<"UI design", "AI">>] }

BatchParams ==
    { [titles |-> ts, image |-> UNDEFINED, style |-> UNDEFINED, watermark |-> UNDEFINED] :
          ts \in TitleLists }

ExportParams == { [format |-> f, quality |-> UNDEFINED] : f \in {UNDEFINED, "png"} }

\* Math.floor(Math.random() * indices.length), 1-based here.
Randoms == {1, 2}

IsGenerate(p) == p.endpoint \in {"generate", "batchGenerate"}

\* What a call that has completed gave its caller.
Answer(endpoint, params, r) ==
    [endpoint |-> endpoint, params |-> params, success |-> r.success, data |-> r.data,
     message |-> r.message]

\* What a completed export gave its caller: the settled promise of
\* coverAPI.export and the response apiEndpoints.export made of it.
ExportAnswer(params, settled) ==
    LET r == apiEndpoints_export(settled)
    IN [endpoint |-> "export", params |-> params, settled |-> settled,
        success |-> r.success, data |-> r.data, message |-> r.message]

exceptApi == <<elementExists, cacheGhost, geometry, schedGhost, cleaned>>

\* Both generate endpoints: the call up to its first await.
ApiStart(endpoint, params, r) ==
    /\ Commit(r.m)
    /\ IF r.done
       THEN /\ response' = Answer(endpoint, params, r.response)
            /\ apiPending' = apiPending
       ELSE /\ response' = response
            /\ apiPending' = Append(apiPending, r.pending)

ApiGenerate ==
    /\ nCalls < MaxCalls
    /\ nCalls' = nCalls + 1
    /\ \E params \in GenerateParams : \E random \in Randoms :
           ApiStart("generate", params, apiEndpoints_generate(M, params, random))
    /\ UNCHANGED <<exceptApi, lastBlob>>

ApiBatchGenerate ==
    /\ nCalls < MaxCalls
    /\ nCalls' = nCalls + 1
    /\ \E params \in BatchParams : \E random \in Randoms :
           ApiStart("batchGenerate", params, apiEndpoints_batchGenerate(M, params, random))
    /\ UNCHANGED <<exceptApi, lastBlob>>

\* A suspended generateCover continues after its await.
GenerateResume ==
    /\ \E i \in DOMAIN apiPending : \E random \in Randoms :
           /\ IsGenerate(apiPending[i])
           /\ LET p == apiPending[i]
                  r == generateResume(M, p, random)
              IN /\ Commit(r.m)
                 /\ IF r.done
                    THEN /\ response' = Answer(p.endpoint, p.params, r.response)
                         /\ apiPending' = RemoveAt(apiPending, i)
                    ELSE /\ response' = response
                         /\ apiPending' = [apiPending EXCEPT ![i] = r.pending]
    /\ UNCHANGED <<exceptApi, lastBlob, nCalls>>

\* apiEndpoints.export up to toBlob; the surface is captured at the call.
ApiExport ==
    /\ nCalls < MaxCalls
    /\ nCalls' = nCalls + 1
    /\ Commit(Log(M, "apiEndpoints.export"))
    /\ \E params \in ExportParams :
           LET settled == coverAPI_export(elementExists)
           IN IF settled.status = "pending"
              THEN /\ apiPending' = Append(apiPending,
                                           [endpoint |-> "export", params |-> params,
                                            format |-> Default(params.format, "webp"),
                                            content |-> output])
                   /\ response' = response
              ELSE /\ apiPending' = apiPending
                   /\ response' = ExportAnswer(params, settled)
    /\ UNCHANGED <<exceptApi, lastBlob>>

\* The toBlob callback of a pending export runs, with a blob or with null.
ToBlobCallback ==
    /\ \E i \in DOMAIN apiPending :
           /\ apiPending[i].endpoint = "export"
           /\ \E blob \in {Nothing, Blob(apiPending[i].format, apiPending[i].content)} :
                  LET settled == coverAPI_export_callback(blob)
                  IN /\ lastBlob' = blob
                     /\ response' = ExportAnswer(apiPending[i].params, settled)
                     /\ apiPending' = RemoveAt(apiPending, i)
    /\ Commit(Log(M, "toBlob.callback"))
    /\ UNCHANGED <<exceptApi, nCalls>>

NextApi ==
    \/ MountElement
    \/ Initialize
    \/ ApiGenerate
    \/ ApiBatchGenerate
    \/ GenerateResume
    \/ ApiExport
    \/ ToBlobCallback
    \/ ImageOnload
    \/ ImageError

SpecApi == Init /\ [][NextApi]_vars

(***************************************************************************)
(* The two layout computations on their own: the aspect fit of the icon    *)
(* (squareImg.onload) and the baselines of the title (drawText), applied   *)
(* to sizes drawn from bounded sets.                                       *)
(***************************************************************************)
\* state.squareSize: inner boxes of side 200, 260 (the default) and 300.
IconSizes == {240, 300, 340}

\* Image widths and heights: multiples of 50 px.
ImageSides == { 50 * k : k \in 1..MaxSide }

\* state.textSize
TextSizes == {50, 100, 130, 200}

\* state.lineHeight: 1, 5/4, 3/2
Multipliers == {Num(1), Frac(5, 4), Frac(3, 2)}

exceptGeometry == <<renderer, imageCache, cacheGhost, api, schedGhost, cleaned>>

InitGeometry ==
    /\ InitRenderer
    /\ InitOthers
    /\ elementExists = FALSE
    /\ imageCache = <<>>
    /\ touched = <<>>
    /\ lastOp = NoOp

FitIcon ==
    /\ \E totalSize \in IconSizes : \E width \in ImageSides : \E height \in ImageSides :
           /\ geomArgs' = [fn |-> "squareImg.onload", totalSize |-> totalSize,
                           width |-> width, height |-> height]
           /\ geomResult' = AspectFit(totalSize, width, height)
    /\ UNCHANGED exceptGeometry

LayoutText ==
    /\ \E textSize \in TextSizes : \E multiplier \in Multipliers : \E lineCount \in 1..MaxLines :
           /\ geomArgs' = [fn |-> "drawText", textSize |-> textSize,
                           multiplier |-> multiplier, lineCount |-> lineCount]
           /\ geomResult' = TextBaselines(Num(textSize), multiplier, lineCount)
    /\ UNCHANGED exceptGeometry

NextGeometry == FitIcon \/ LayoutText

SpecGeometry == InitGeometry /\ [][NextGeometry]_vars

(***************************************************************************)
(* The scheduler on its own terms: scheduleUpdate and the frame callback   *)
(* with cleanup never called.  enqueued records every event passed to      *)
(* scheduleUpdate, in call order; dispatched records every event the loop  *)
(* of processBatchUpdates handed to its updater, in dispatch order.  An    *)
(* armed frame callback eventually fires.                                  *)
(***************************************************************************)
\* The events a flush handed to an updater: one per iteration of its loop.
Dispatched(m) ==
    SubSeq(m.updates, 1, Len(SelectSeq(m.calls, LAMBDA f : f = "case")))

\* The kinds scheduled here: file, colour and string controls.
SchedTypes == DrivenTypes \ NumberTypes

exceptSched == <<elementExists, cacheGhost, api, geometry, cleaned>>

\* A call of scheduleUpdate(type, event).
SchedEnqueue ==
    /\ nCalls < MaxCalls
    /\ nCalls' = nCalls + 1
    /\ \E type \in SchedTypes : \E event \in Events(type) :
           /\ Commit(scheduleUpdate(M, type, event))
           /\ enqueued' = Append(enqueued, [type |-> type, event |-> event])
    /\ UNCHANGED <<dispatched, exceptSched>>

\* The armed frame callback fires: processBatchUpdates runs.
SchedFlush ==
    /\ rafPending > 0
    /\ LET m == processBatchUpdates([M EXCEPT !.rafPending = @ - 1])
       IN /\ Commit(m)
          /\ dispatched' = dispatched \o Dispatched(m)
    /\ UNCHANGED <<enqueued, nCalls, exceptSched>>

NextSched ==
    \/ MountElement
    \/ Initialize
    \/ SchedEnqueue
    \/ SchedFlush
    \/ ReaderOnload
    \/ ImageOnload
    \/ ImageError

\* The step of SchedFlush as rafPending shows it: the armed callback is consumed.
FrameFires == rafPending > 0 /\ rafPending' = rafPending - 1

SpecSched == Init /\ [][NextSched]_vars /\ WF_rafPending(FrameFires)

(***************************************************************************)
(* The renderer up to and after cleanup: the entrypoints are called only   *)
(* before the first cleanup; the file reads, image decodes and frame       *)
(* callbacks they started complete at any time, also after it.  cleaned    *)
(* records that cleanup ran and the RenderState it left.                   *)
(***************************************************************************)
\* A call of initialize, scheduleUpdate or an update function, before cleanup.
EntryInitialize == ~cleaned.done /\ Initialize

EntryScheduleUpdate == ~cleaned.done /\ ScheduleUpdate

EntryUpdate == ~cleaned.done /\ Update

\* A call of cleanup.
CleanupCall ==
    /\ Commit(cleanup(M))
    /\ cleaned' = [done |-> TRUE, state |-> state]
    /\ UNCHANGED <<elementExists, nCalls, ghosts>>

NextCleanup ==
    \/ MountElement
    \/ EntryInitialize
    \/ EntryScheduleUpdate
    \/ EntryUpdate
    \/ CleanupCall
    \/ FrameCallback
    \/ ReaderOnload
    \/ ImageOnload
    \/ ImageError

SpecCleanup == Init /\ [][NextCleanup]_vars

(***************************************************************************)
(* Image loads with files whose names end in digits: loadImage builds the  *)
(* cache key as file.name + file.size.  Two files share (name, size) with  *)
(* different content; two others differ in both name and size.             *)
(***************************************************************************)
KeyFiles == { [name |-> "a", size |-> 12, data |-> "A"],
              [name |-> "a", size |-> 12, data |-> "B"],
              [name |-> "a1", size |-> 2, data |-> "C"],
              [name |-> "b", size |-> 2, data |-> "D"] }

\* A direct call of updateBackgroundImage or updateSquareImage with one file.
LoadFile ==
    /\ nCalls < MaxCalls
    /\ nCalls' = nCalls + 1
    /\ \E type \in FileTypes : \E file \in KeyFiles :
           Commit(updateByType(M, type, [files |-> <<file>>]))
    /\ UNCHANGED <<elementExists, others>>

NextKeys ==
    \/ MountElement
    \/ Initialize
    \/ LoadFile
    \/ ReaderOnload
    \/ ImageOnload
    \/ ImageError

SpecKeys == Init /\ [][NextKeys]_vars

(***************************************************************************)
(* Vocabulary of the properties.                                           *)
(***************************************************************************)
Count(seq, x) == Cardinality({ i \in DOMAIN seq : seq[i] = x })

Last(seq) == seq[Len(seq)]

\* The handler that ran last is a frame-callback flush.
IsFlush == calls # <<>> /\ calls[1] = "processBatchUpdates"

\* No file read, image decode or frame callback is pending.
Settled == readers = <<>> /\ images = <<>> /\ rafPending = 0

\* The kind-to-flag table of the flush, as the redraw each flag stands for.
FlaggedTypes == {"bg", "bgColor", "text", "textSize", "textColor", "lineHeight", "text3D",
                 "watermark", "watermarkColor", "square", "rotation", "squareSize",
                 "shadowStrength", "shadowColor"}

RedrawOf(type) ==
    IF type \in {"bg", "bgColor"} THEN "drawBackground"
    ELSE IF type \in {"text", "textSize", "textColor", "lineHeight", "text3D"} THEN "drawText"
    ELSE IF type \in {"watermark", "watermarkColor"} THEN "drawWatermark"
    ELSE "drawSquareImage"

\* The RenderState field an event kind names.
FieldOf(type) == IF type = "font" THEN "selectedFont" ELSE type

\* The event kinds that carry a value for a RenderState field.
ValueTypes == Types \ FileTypes

\* C1: a flush that drains K >= 1 events, all of one kind of the flag table,
\* invokes the redraw of that kind's layer exactly once.
C1_CoalescedRedraw ==
    (/\ IsFlush
     /\ updates # <<>>
     /\ \A i \in DOMAIN updates : updates[i].type = updates[1].type
     /\ updates[1].type \in FlaggedTypes)
    => Count(calls, RedrawOf(updates[1].type)) = 1

\* C2: a flush invokes composeCanvases exactly once, as its last call.
C2_SingleComposePerFlush ==
    IsFlush => /\ Count(calls, "composeCanvases") = 1
               /\ Last(calls) = "composeCanvases"

\* C3: at most one frame callback armed by scheduleUpdate is pending.
C3_AtMostOneFrameCallback == rafPending <= 1

\* C4: after a flush, for every drained event that carries a value (the last
\* one of its kind in the batch; an empty text stands for the default text),
\* the RenderState field its kind names holds that value.
C4_MutationApplied ==
    IsFlush =>
        \A i \in DOMAIN updates :
            LET type == updates[i].type IN
            (/\ type \in ValueTypes
             /\ \A j \in DOMAIN updates : j > i => updates[j].type # type
             /\ ~(type = "text" /\ updates[i].event.value = ""))
            => state[FieldOf(type)] = updates[i].event.value

\* C5: once a background image update was followed by a background colour
\* update and all pending work has settled, bgImageUrl is null and the
\* background layer holds exactly the fill of bgColor.
C5_ColorAfterImage ==
    (bgIssued = <<"image", "color">> /\ Settled)
    => /\ state.bgImageUrl = NULL
       /\ Len(bgCanvas) = 1
       /\ bgCanvas[1].op = "fillRect"
       /\ bgCanvas[1].fillStyle = state.bgColor

\* The layer shows the image of `file`: the url refers to it and the image
\* drawn last on the layer is its.
Shows(url, layerCanvas, file) ==
    /\ url = DataURL(file)
    /\ layerCanvas # <<>>
    /\ Last(layerCanvas).op = "drawImage"
    /\ Last(layerCanvas).src = DataURL(file)

\* C6: once all reads and decodes have completed (none failed), each layer
\* shows the image source that was set last for it.
C6_LaterSourceWins ==
    (Settled /\ ~decodeFailed)
    => /\ (lastSet.background # NoFile /\ Last(bgIssued) = "image")
              => Shows(state.bgImageUrl, bgCanvas, lastSet.background)
       /\ lastSet.square # NoFile
              => Shows(state.squareImageUrl, squareCanvas, lastSet.square)

\* The handler that ran last ended in a composeCanvases call.
ComposedLast == calls # <<>> /\ Last(calls) = "composeCanvases"

\* The four layer surfaces in the order Background, Text, Icon, Watermark.
LayerStack ==
    <<[layer |-> "bgCanvas", content |-> bgCanvas],
      [layer |-> "textCanvas", content |-> textCanvas],
      [layer |-> "squareCanvas", content |-> squareCanvas],
      [layer |-> "watermarkCanvas", content |-> watermarkCanvas]>>

layers == <<bgCanvas, textCanvas, squareCanvas, watermarkCanvas>>

\* C9: after every composeCanvases with an acquired context the output is the
\* cleared surface with Background, Text, Icon, Watermark drawn in that order,
\* a function of the four layers alone; a direct composeCanvases call leaves
\* the layers alone, and one that follows a compose leaves the output as it was.
C9_ComposeOrderFixed ==
    /\ [](ComposedLast /\ ctx # NULL => output = LayerStack)
    /\ [][calls' = <<"composeCanvases">>
            => /\ layers' = layers
               /\ (ComposedLast /\ ctx # NULL => output' = output)]_vars

\* C9 witness: a direct composeCanvases call with the context acquired and all
\* four layers drawn.
C9_Witness ==
    /\ calls = <<"composeCanvases">>
    /\ ctx # NULL
    /\ bgCanvas # <<>> /\ textCanvas # <<>> /\ squareCanvas # <<>> /\ watermarkCanvas # <<>>
    /\ output = LayerStack

\* C10: initialize without the output element takes no context, issues no
\* layer redraw and changes no surface; composeCanvases without a context
\* changes nothing.
C10_MissingSurfaceNoOp ==
    /\ [][(calls' # <<>> /\ calls'[1] = "initialize" /\ ~elementExists)
            => /\ calls' = <<"initialize">>
               /\ ctx' = NULL /\ canvas' = NULL
               /\ UNCHANGED <<state, output, layers, bgFilter, updateQueue, updateScheduled,
                              rafPending, imageCache, readers, images>>]_vars
    /\ [][(calls' = <<"composeCanvases">> /\ ctx = NULL)
            => UNCHANGED <<state, canvas, ctx, output, layers, bgFilter, updateQueue,
                           updateScheduled, rafPending, imageCache, readers, images>>]_vars

\* C10 witness: initialize ran without the element, after surfaces were drawn.
C10_Witness ==
    /\ calls = <<"initialize">>
    /\ ~elementExists
    /\ ctx = NULL
    /\ textCanvas # <<>>

\* The four layer redraws.
LayerRedraws == {"drawBackground", "drawText", "drawWatermark", "drawSquareImage"}

\* The handler that ran last is initialize.
IsInitialize == calls # <<>> /\ calls[1] = "initialize"

\* C11: initialize with the output element present acquires the output
\* context and invokes each of the four layer redraws exactly once.
C11_InitializeDrawsAll ==
    (IsInitialize /\ elementExists)
    => /\ canvas # NULL
       /\ ctx # NULL
       /\ \A f \in LayerRedraws : Count(calls, f) = 1

\* C11 witness: initialize ran with the element present and an icon source
\* set, so the icon redraw took its image path.
C11_Witness ==
    /\ IsInitialize
    /\ elementExists
    /\ ctx # NULL
    /\ state.squareImageUrl # NULL
    /\ images # <<>>

\* The program state of a machine record (its call log left out).
Program(m) == [m EXCEPT !.calls = <<>>]

\* C12: from every reachable state cleanup leaves the image cache empty, the
\* update queue empty and the scheduled flag false, and a second cleanup right
\* after the first changes nothing more.
C12_CleanupIdempotent ==
    LET once == cleanup(M)
        twice == cleanup(once)
    IN /\ once.imageCache = <<>>
       /\ once.updateQueue = <<>>
       /\ ~once.updateScheduled
       /\ Program(twice) = Program(once)
       /\ calls = <<"cleanup">>
              => imageCache = <<>> /\ updateQueue = <<>> /\ ~updateScheduled

\* C12 witness: cleanup ran with an image loaded into the cache and an update
\* queued: the cache and the queue are empty, the frame callback is still armed.
C12_Witness ==
    /\ calls = <<"cleanup">>
    /\ state.bgImageUrl # NULL
    /\ rafPending = 1
    /\ imageCache = <<>>
    /\ updateQueue = <<>>
    /\ ~updateScheduled

\* The surface of the layer a decode belongs to.
LayerContent(layer) == IF layer = "background" THEN bgCanvas ELSE squareCanvas

\* This step is the failure of the decode images[i]: it leaves the list and no
\* handler runs.
DecodeFails(i) == decodeFailed' /\ calls' = <<>> /\ images' = RemoveAt(images, i)

\* C14: when the decode started by drawBackground or drawSquareImage fails
\* (and nothing else has drawn on the layer since that redraw), the layer
\* holds the content it had before the redraw was issued.
C14_DecodeFailureKeepsLayer ==
    [][\A i \in DOMAIN images :
          (DecodeFails(i) /\ LayerContent(images[i].layer) = <<>>)
          => (IF images[i].layer = "background" THEN bgCanvas' ELSE squareCanvas')
                 = images[i].before]_vars

\* The handler that ran last ended in the redraw `f` taking its image path:
\* the redraw returned without a composeCanvases call.
EndedInDecodeOf(f) == calls # <<>> /\ Last(calls) = f

\* C14 as amended: a redraw that starts a decode leaves its layer cleared and
\* the decode pending; when the decode fails no handler runs, so the layers,
\* the output surface and RenderState stay as they were: the layer stays
\* cleared, and the output keeps its last composite.
C14_DecodeFailureLeavesLayerCleared ==
    /\ [](EndedInDecodeOf("drawBackground")
             => /\ bgCanvas = <<>>
                /\ images # <<>> /\ Last(images).layer = "background")
    /\ [](EndedInDecodeOf("drawSquareImage")
             => /\ squareCanvas = <<>>
                /\ images # <<>> /\ Last(images).layer = "square")
    /\ [][\A i \in DOMAIN images :
             DecodeFails(i) => UNCHANGED <<layers, output, state, bgFilter>>]_vars

\* C14 witness: the decode of a background image failed after the layer held
\* a colour fill: the layer is empty and the output still shows the fill.
C14_Witness ==
    /\ decodeFailed
    /\ images = <<>>
    /\ state.bgImageUrl # NULL
    /\ bgCanvas = <<>>
    /\ ctx # NULL
    /\ output # <<>>
    /\ output[1].content # <<>>

\* C15: when the updater of one drained event throws inside a flush, every
\* drained event is still handed to its updater, the layers the batch flagged
\* are still redrawn and the flush still ends in composeCanvases.
C15_FailureIsolation ==
    (IsFlush /\ Count(calls, "TypeError") > 0)
    => /\ Count(calls, "case") = Len(updates)
       /\ \A i \in DOMAIN updates :
              updates[i].type \in FlaggedTypes
                  => Count(calls, RedrawOf(updates[i].type)) >= 1
       /\ Last(calls) = "composeCanvases"

IsPrefix(s, t) == Len(s) <= Len(t) /\ SubSeq(t, 1, Len(s)) = s

\* C19: with cleanup never called and armed frame callbacks eventually firing,
\* the events dispatched to updaters are always an initial part of the events
\* passed to scheduleUpdate (each at most once, in enqueue order, equal events
\* kept apart), a frame callback is pending whenever the queue is non-empty,
\* and every event passed to scheduleUpdate is eventually dispatched.
C19_NoEventStrandedOrDuplicated ==
    /\ [](IsPrefix(dispatched, enqueued))
    /\ [](updateQueue # <<>> => rafPending > 0)
    /\ \A n \in 1..MaxCalls : (Len(enqueued) >= n) ~> (Len(dispatched) >= n)

\* C20: whenever the output context is acquired, no decode has failed and no
\* file read, image decode or frame callback is pending, the output surface is
\* the composite of the four layer surfaces as they are now.
C20_SettledOutputConsistent ==
    (ctx # NULL /\ ~decodeFailed /\ Settled) => output = LayerStack

\* C20 witness: settled with the context acquired, after a background image
\* was decoded and drawn.
C20_Witness ==
    /\ ctx # NULL
    /\ ~decodeFailed
    /\ Settled
    /\ bgCanvas # <<>>
    /\ Last(bgCanvas).op = "drawImage"
    /\ output = LayerStack

\* The value handed to the toBlob callback that ran last is a blob.
IsBlob(x) == "content" \in DOMAIN x

\* C13: an export answers success only with data: without the output element
\* and when toBlob yields null, coverAPI.export rejects and apiEndpoints.export
\* answers success = false with the error's message; a success carries the
\* blob toBlob produced, its url, size and type.
C13_ExportNeverEmptySuccess ==
    response.endpoint = "export" =>
        LET settled == response.settled
        IN /\ settled.status \in {"fulfilled", "rejected"}
           /\ response.success <=> settled.status = "fulfilled"
           /\ response.success
                  => /\ IsBlob(lastBlob)
                     /\ settled.value.blob = lastBlob
                     /\ response.data = settled.value
                     /\ response.data.url # ""
                     /\ response.data.size = lastBlob.size
                     /\ response.data.type = lastBlob.type
           /\ ~response.success
                  => /\ IsNothing(response.data)
                     /\ response.message = settled.error
                     /\ response.message \in {"Canvas not found", "Export failed"}
           /\ ~elementExists => ~response.success /\ response.message = "Canvas not found"
           /\ IsNothing(lastBlob) => ~response.success /\ response.message = "Export failed"

\* C13 witness: the export of a drawn cover as png succeeded with its blob.
C13_Witness ==
    /\ response.endpoint = "export"
    /\ response.success
    /\ response.data.type = "image/png"
    /\ response.data.blob.content # <<>>

InvalidGenerateParams == { params \in GenerateParams : ~Truthy(Default(params.title, "")) }

InvalidBatchParams ==
    { params \in BatchParams : params.titles.kind # "array" \/ params.titles.items = <<>> }

\* The call answered at once with a failure and left the machine as it was.
Rejected(r, handler) ==
    /\ r.done
    /\ ~r.response.success
    /\ IsNothing(r.response.data)
    /\ r.response.message # ""
    /\ r.m.calls = <<handler>>
    /\ Program(r.m) = M

\* C16: in every reachable state apiEndpoints.generate with an empty or missing
\* title, and apiEndpoints.batchGenerate with an empty list or a value that is
\* no array, answer success = false, assign nothing and call no layer redraw.
C16_InvalidInputRejected ==
    /\ \A params \in InvalidGenerateParams : \A random \in Randoms :
           Rejected(apiEndpoints_generate(M, params, random), "apiEndpoints.generate")
    /\ \A params \in InvalidBatchParams : \A random \in Randoms :
           Rejected(apiEndpoints_batchGenerate(M, params, random), "apiEndpoints.batchGenerate")
    /\ calls = <<"apiEndpoints.generate">>
           => /\ response.endpoint = "generate"
              /\ response.params \in InvalidGenerateParams
              /\ ~response.success
    /\ calls = <<"apiEndpoints.batchGenerate">>
           => /\ response.endpoint = "batchGenerate"
              /\ response.params \in InvalidBatchParams
              /\ ~response.success

\* C16 witness: generate with an empty title was rejected after a cover had
\* been generated: the title of that cover is still the text.
C16_Witness ==
    /\ calls = <<"apiEndpoints.generate">>
    /\ response.endpoint = "generate"
    /\ response.params.title = ""
    /\ ~response.success
    /\ state.text = "AI"
    /\ textCanvas # <<>>

\* a <= b on fractions
Le(a, b) == ~Gt(a, b)

\* C17: for an inner box of side S and an image of width w and height h the
\* icon is drawn S x (S*h/w), vertically centred, when w > h, and (S*w/h) x S,
\* horizontally centred, otherwise; it never exceeds the inner box; a 400x200
\* image in a 200 box is drawn 200x100 with margins of 50 above and below, a
\* 200x400 image 100x200 with margins of 50 left and right.
C17_IconAspectFit ==
    geomArgs.fn = "squareImg.onload" =>
        LET S == geomArgs.totalSize - 2 * borderWidth
            w == geomArgs.width
            h == geomArgs.height
            drawn == geomResult
            left == Sub(drawn.x, Num(borderWidth))
            top == Sub(drawn.y, Num(borderWidth))
            right == Sub(Num(S), Add(left, drawn.width))
            bottom == Sub(Num(S), Add(top, drawn.height))
        IN /\ w > h => /\ drawn.width = Num(S)
                       /\ drawn.height = Frac(S * h, w)
                       /\ top = bottom
                       /\ left = Num(0)
           /\ w <= h => /\ drawn.width = Frac(S * w, h)
                        /\ drawn.height = Num(S)
                        /\ left = right
                        /\ top = Num(0)
           /\ Le(drawn.width, Num(S)) /\ Le(drawn.height, Num(S))
           /\ Le(Num(0), left) /\ Le(Num(0), top) /\ Le(Num(0), right) /\ Le(Num(0), bottom)
           /\ (S = 200 /\ w = 400 /\ h = 200)
                  => /\ drawn.width = Num(200) /\ drawn.height = Num(100)
                     /\ top = Num(50) /\ bottom = Num(50)
           /\ (S = 200 /\ w = 200 /\ h = 400)
                  => /\ drawn.width = Num(100) /\ drawn.height = Num(200)
                     /\ left = Num(50) /\ right = Num(50)

\* C17 witness: a 400x200 image fitted into the 200 box is drawn 200x100, 50
\* below the top of the box.
C17_Witness ==
    /\ geomArgs = [fn |-> "squareImg.onload", totalSize |-> 240, width |-> 400, height |-> 200]
    /\ geomResult.width = Num(200)
    /\ geomResult.height = Num(100)
    /\ geomResult.y = Num(borderWidth + 50)

\* C18: for a title of N lines drawText puts line i (0-based) at
\* startY + i*lineHeight, lineHeight = textSize * multiplier and
\* startY = (500 - N*lineHeight)/2 + lineHeight/2: consecutive lines are
\* lineHeight apart, and the first and the last y add up to the surface
\* height; three lines of height 100 lie at 150, 250 and 350.
C18_MultiLineCentering ==
    geomArgs.fn = "drawText" =>
        LET N == geomArgs.lineCount
            lineHeight == Mul(Num(geomArgs.textSize), geomArgs.multiplier)
            ys == geomResult
        IN /\ DOMAIN ys = 0..(N - 1)
           /\ \A i \in 0..(N - 1) :
                  Mul(Num(2), ys[i])
                      = Add(Sub(Num(canvasHeight), Mul(Num(N), lineHeight)),
                            Mul(Num(2 * i + 1), lineHeight))
           /\ \A i \in 0..(N - 2) : Sub(ys[i + 1], ys[i]) = lineHeight
           /\ Add(ys[0], ys[N - 1]) = Num(canvasHeight)
           /\ (N = 3 /\ lineHeight = Num(100))
                  => ys[0] = Num(150) /\ ys[1] = Num(250) /\ ys[2] = Num(350)

\* C18 witness: three lines of size 100 and multiplier 1 at 150, 250, 350.
C18_Witness ==
    /\ geomArgs = [fn |-> "drawText", textSize |-> 100, multiplier |-> Num(1), lineCount |-> 3]
    /\ geomResult[0] = Num(150)
    /\ geomResult[2] = Num(350)

\* The present key that was touched least recently.
LeastRecentlyTouched ==
    CHOOSE k \in CacheKeys(imageCache) :
        \A other \in CacheKeys(imageCache) : touched[k] <= touched[other]

\* This step is a set of `lastOp'.key`.
SetStep == lastOp'.op = "set" /\ lastOp'.n = lastOp.n + 1

\* C7: a set of a new key into a full cache evicts exactly the entry touched
\* least recently by get or set; a set of a present key evicts nothing; the key
\* of a get hit survives the insert of a new key that follows it.
C7_LruEviction ==
    [][SetStep =>
         LET keys == CacheKeys(imageCache)
             key == lastOp'.key
         IN /\ (key \notin keys /\ Len(imageCache) = imageCacheMaxSize)
                  => CacheKeys(imageCache') = (keys \ {LeastRecentlyTouched}) \cup {key}
            /\ (key \notin keys /\ Len(imageCache) < imageCacheMaxSize)
                  => CacheKeys(imageCache') = keys \cup {key}
            /\ key \in keys => CacheKeys(imageCache') = keys
            /\ (lastOp.op = "get" /\ lastOp.key \in keys /\ key \notin keys)
                  => lastOp.key \in CacheKeys(imageCache')]_vars

\* C7 witness: the least recently inserted key was read, then a new key was
\* inserted into the full cache: the read key is still there, the next one is gone.
C7_Witness ==
    /\ lastOp.op = "set"
    /\ lastOp.key = cacheKeyOf(CacheFile(imageCacheMaxSize + 1))
    /\ Len(imageCache) = imageCacheMaxSize
    /\ CacheHas(imageCache, cacheKeyOf(CacheFile(1)))
    /\ ~CacheHas(imageCache, cacheKeyOf(CacheFile(2)))

\* C8: the image cache never holds more than its capacity (30) and holds a key
\* at most once.
C8_CacheBounded ==
    /\ Len(imageCache) <= imageCacheMaxSize
    /\ Cardinality(CacheKeys(imageCache)) = Len(imageCache)

\* C8 witness: a full cache into which a further new key has been inserted.
C8_Witness ==
    /\ Len(imageCache) = imageCacheMaxSize
    /\ lastOp.op = "set"
    /\ imageCache[imageCacheMaxSize].key = cacheKeyOf(CacheFile(imageCacheMaxSize + 2))
    /\ CacheHas(imageCache, cacheKeyOf(CacheFile(imageCacheMaxSize + 1)))

\* A non-empty batch whose kinds all map to one layer flag of the flag table.
OneLayerBatch(batch) ==
    /\ batch # <<>>
    /\ \A i \in DOMAIN batch :
           /\ batch[i].type \in FlaggedTypes
           /\ RedrawOf(batch[i].type) = RedrawOf(batch[1].type)

\* The surface a layer redraw paints, in a machine record.
SurfaceOf(m, redraw) ==
    CASE redraw = "drawBackground" -> <<m.bgCanvas, m.bgFilter>>
      [] redraw = "drawText" -> <<m.textCanvas>>
      [] redraw = "drawWatermark" -> <<m.watermarkCanvas>>
      [] redraw = "drawSquareImage" -> <<m.squareCanvas>>

\* C21: from every reachable state whose queue holds only kinds of one layer
\* flag, the flush calls no redraw of another layer and leaves the surfaces of
\* the other three layers as they were; and every such flush that has run
\* logged no redraw of another layer.
C21_NoCrossLayerRedraw ==
    /\ (rafPending > 0 /\ OneLayerBatch(updateQueue))
       => LET m == processBatchUpdates([M EXCEPT !.rafPending = @ - 1])
          IN \A f \in LayerRedraws \ {RedrawOf(updateQueue[1].type)} :
                 /\ Count(m.calls, f) = 0
                 /\ SurfaceOf(m, f) = SurfaceOf(M, f)
    /\ (IsFlush /\ OneLayerBatch(updates))
       => \A f \in LayerRedraws \ {RedrawOf(updates[1].type)} : Count(calls, f) = 0

\* C21 witness: a flush drained two events of different kinds of the text
\* flag and redrew the text layer.
C21_Witness ==
    /\ IsFlush
    /\ OneLayerBatch(updates)
    /\ Len(updates) = 2
    /\ updates[1].type # updates[2].type
    /\ RedrawOf(updates[1].type) = "drawText"
    /\ Count(calls, "drawText") >= 1
    /\ Count(calls, "drawBackground") = 0
    /\ textCanvas # <<>>

\* The place of a layer redraw in the fixed layer order.
LayerRank(redraw) ==
    CASE redraw = "drawBackground" -> 1
      [] redraw = "drawText" -> 2
      [] redraw = "drawWatermark" -> 3
      [] redraw = "drawSquareImage" -> 4

\* C22: the layer redraws a flush issues follow the order background, text,
\* watermark, icon: no redraw of a later layer precedes a redraw of an earlier
\* one in the flush's call log, whatever the order of the drained events.
C22_FixedRedrawOrder ==
    IsFlush
    => \A i, j \in DOMAIN calls :
           (i < j /\ calls[i] \in LayerRedraws /\ calls[j] \in LayerRedraws)
           => LayerRank(calls[i]) <= LayerRank(calls[j])

\* Strength values a shadowStrength event can carry.
Strengths == {7, 30}

StrengthEvents == { [value |-> v] : v \in Strengths }

\* C24: right after a flush that handed a shadowStrength event to its updater,
\* state.shadowBlur is twice the value that event carried and both shadow
\* offsets are 0; and from that state updateShadowStrength leaves twice the
\* event's value for every event, so different values leave different blurs.
C24_ShadowFromEvent ==
    \A i \in DOMAIN updates :
        (/\ IsFlush
         /\ i <= Count(calls, "case")
         /\ updates[i].type = "shadowStrength"
         /\ \A j \in DOMAIN updates : j > i => updates[j].type # "shadowStrength")
        => /\ state.shadowBlur = 2 * updates[i].event.value
           /\ state.shadowOffsetX = 0
           /\ state.shadowOffsetY = 0
           /\ \A e1, e2 \in StrengthEvents :
                  LET m1 == updateShadowStrength(M, e1)
                      m2 == updateShadowStrength(M, e2)
                  IN /\ m1.state.shadowBlur = 2 * e1.value
                     /\ e1.value # e2.value => m1.state.shadowBlur # m2.state.shadowBlur

\* C23: once cleanup has run and no entrypoint is called after it, the image
\* cache is empty and RenderState is as cleanup left it, whatever file reads,
\* image decodes and frame callbacks started before it complete after it.
C23_CleanupStable ==
    cleaned.done => /\ imageCache = <<>>
                    /\ state = cleaned.state

\* Two files of equal name and equal size.
SameIdentity(f, g) == f.name = g.name /\ f.size = g.size

\* C25: from every reachable state, when loadImage finds a file's key in the
\* cache, every file with that key has the file's name and size, and the data
\* handed to the callback is the data of a file of that name and size.
C25_KeysCollideOnIdentityOnly ==
    \A f \in KeyFiles :
        CacheHas(imageCache, cacheKeyOf(f))
        => /\ \A g \in KeyFiles : cacheKeyOf(g) = cacheKeyOf(f) => SameIdentity(f, g)
           /\ \E g \in KeyFiles :
                  /\ SameIdentity(f, g)
                  /\ loadImage(M, f, "background").state.bgImageUrl = DataURL(g)

====
